---- MODULE Spec2Model ----
(***************************************************************************)
(* Client-side session/state reconciliation core of static/js/main.js:     *)
(* the request gateway (apiCall, cancelAllRequests), the session store     *)
(* (AppState), the upload coordinator (validateFiles,                      *)
(* handleDocumentUpload) and the conversation controller                   *)
(* (sendChatMessage, saveAndEndChat, clearChatSession,                     *)
(* loadExistingSession, the beforeunload listener), and the two service    *)
(* forms that share the gateway and the toasts with the chat               *)
(* (handleAnalysisSubmit, handleComparisonSubmit).                         *)
(*                                                                         *)
(* JavaScript runs handlers to completion: one action of this module is    *)
(* one synchronous run of the code, from an event (a user action, the      *)
(* arrival of a response, the delivery of an abort) to the next await.     *)
(* Strings that the code inspects (the question, file names) are           *)
(* sequences of one-character strings; texts it only copies are tokens.    *)
(*                                                                         *)
(* Of the DOM the module keeps what the code later reads or what a user    *)
(* sees of the session: the three disabled flags, the visibility of the    *)
(* chat interface, the displayed session id, the transcript and the        *)
(* toasts. The loaders and the upload status line are shown exactly while  *)
(* the matching button is disabled; the list of active files and the       *)
(* value of the chat input are written and never read back. Of a service   *)
(* form it keeps the disabled flag of its button and whether its result    *)
(* panel is shown.                                                         *)
(*                                                                         *)
(* Three specifications share Init: Spec is the chat (upload, turns, end,  *)
(* clear, recovery, unload) with the service forms left alone; FormsSpec   *)
(* is the three forms that submit files (analysis, comparison, chat        *)
(* upload) with recovery and unload, the chat controls left alone. Both    *)
(* record the calls of Toast.* of a step in `toasts` and leave the toast   *)
(* element alone; ToastSpec is the ToastManager by itself (show, hide and  *)
(* their timers), with show and hide called at any time.                   *)
(***************************************************************************)
EXTENDS Integers, Sequences, FiniteSets, TLC

\* ===== bounds of the model =====
\* Date.now() takes the values 0..MaxClock
MaxClock == 1
\* at most MaxCalls apiCall invocations are in flight together
MaxCalls == 2
\* no turn is submitted once the transcript holds more than MaxTranscript - 2 messages
MaxTranscript == 3
\* at most MaxTimers callbacks of show() and of hide() are pending
MaxTimers == 2
\* the shortest time the model lets pass (ms): less than the delay of any callback
Moment == 5

\* ===== CONFIG (main.js:2-16) =====
maxFileSize == 10 * 1024 * 1024
maxFiles == 5
allowedFileTypes ==
    { <<".", "p", "d", "f">>, <<".", "d", "o", "c">>,
      <<".", "d", "o", "c", "x">>, <<".", "t", "x", "t">> }

\* ===== values =====
\* JavaScript null / undefined
NULL == "<null>"
UNDEFINED == "<undefined>"
\* session identifiers the server may assign
Sessions == {"s1", "s2"}
\* JavaScript truthiness of a session value (null and "" are falsy)
Truthy(s) == s \notin {NULL, UNDEFINED, ""}

\* ConversationEntry values sent by the server
UploadEntry == [type |-> "document_upload", question |-> "", answer |-> ""]
QaEntry(q, a) == [type |-> "qa", question |-> q, answer |-> a]
\* conversation histories the server may return
Histories ==
    { <<>>, <<UploadEntry>>, <<UploadEntry, QaEntry("q", "a1")>> }

\* fixed texts of the bot messages
GreetingReady == "Hello! I've analyzed your documents"
GreetingUpload == "Hello! Upload your documents to get started"
Processed == "I've processed your request."
Apology == "I apologize, but I'm having trouble processing your request."
ConnectionIssues == "I'm experiencing connection issues."

\* response bodies {success, result:{session, conversation_history, latest_answer?}, error?}
FailBodies == { [success |-> FALSE, session |-> NULL, conversation_history |-> <<>>,
                 latest_answer |-> UNDEFINED, error |-> e] : e \in {UNDEFINED, "server says no"} }
OkBodies == { [success |-> TRUE, session |-> s, conversation_history |-> h,
               latest_answer |-> a, error |-> UNDEFINED] :
              s \in Sessions \cup {NULL}, h \in Histories, a \in {"a1", UNDEFINED} }
\* the success bodies of each endpoint: qa-end and qa-clear answer {success}, the
\* analysis and comparison results carry nothing of the session, the recovery and
\* upload responses carry no latest_answer, a turn response may
PlainOk == [success |-> TRUE, session |-> NULL, conversation_history |-> <<>>,
            latest_answer |-> UNDEFINED, error |-> UNDEFINED]
ResponseBodies(op) ==
    FailBodies \cup
    (CASE op \in {"end", "clear", "analysis", "comparison"} -> {PlainOk}
       [] op \in {"upload", "recover"} -> {b \in OkBodies : b.latest_answer = UNDEFINED}
       [] OTHER -> OkBodies)

\* operations that go through apiCall
Ops == {"recover", "upload", "turn", "end", "clear", "analysis", "comparison"}

\* ===== pure helpers =====
\* String.prototype.trim on a sequence of characters
RECURSIVE TrimLeft(_)
TrimLeft(s) == IF s # <<>> /\ Head(s) = " " THEN TrimLeft(Tail(s)) ELSE s
RECURSIVE TrimRight(_)
TrimRight(s) ==
    IF s # <<>> /\ s[Len(s)] = " " THEN TrimRight(SubSeq(s, 1, Len(s) - 1)) ELSE s
\* the value taken as it is
Trim_none(s) == s
Trim(s) == TrimRight(TrimLeft(s))

\* the question as the text shown in the transcript and sent to the server
RECURSIVE Text(_)
Text(s) == IF s = <<>> THEN "" ELSE Head(s) \o Text(Tail(s))

\* String.prototype.toLowerCase, one character
LowerChar(c) ==
    CASE c = "P" -> "p" [] c = "D" -> "d" [] c = "F" -> "f"
      [] c = "T" -> "t" [] c = "X" -> "x" [] OTHER -> c
toLowerCase(s) == [i \in 1..Len(s) |-> LowerChar(s[i])]

\* name.split('.').pop(): the part after the last dot, the whole name without one
RECURSIVE splitPop(_)
splitPop(s) ==
    IF \E i \in 1..Len(s) : s[i] = "."
    THEN splitPop(Tail(s))
    ELSE s

\* const fileExtension = '.' + file.name.split('.').pop().toLowerCase()
fileExtension(name) == <<".">> \o toLowerCase(splitPop(name))

\* the errors validateFiles pushes for one file, in the order of the code
fileErrors(file) ==
    (IF file.size > maxFileSize THEN << <<"too large", file.name>> >> ELSE <<>>)
    \o (IF fileExtension(file.name) \notin allowedFileTypes
        THEN << <<"unsupported format", file.name>> >> ELSE <<>>)
    \o (IF file.size = 0 THEN << <<"empty", file.name>> >> ELSE <<>>)

RECURSIVE allFileErrors(_)
allFileErrors(files) ==
    IF files = <<>> THEN <<>>
    ELSE fileErrors(Head(files)) \o allFileErrors(Tail(files))

validateFiles(files, maxF) ==
    IF Len(files) = 0
    THEN << <<"select at least one file", <<>> >> >>
    ELSE (IF Len(files) > maxF THEN << <<"too many files", <<>> >> >> ELSE <<>>)
         \o allFileErrors(files)


\* displayConversationHistory: the transcript rendered from a history
RECURSIVE renderEntries(_)
renderEntries(h) ==
    IF h = <<>> THEN <<>>
    ELSE (IF Head(h).type = "qa"
          THEN << [sender |-> "user", text |-> Head(h).question],
                  [sender |-> "bot", text |-> Head(h).answer] >>
          ELSE <<>>)
         \o renderEntries(Tail(h))
displayConversationHistory(h) ==
    IF Len(h) = 0 THEN << [sender |-> "bot", text |-> GreetingReady] >>
    ELSE renderEntries(h)

\* updateSessionDisplay: textContent = AppState.currentChatSession || 'None'
updateSessionDisplay(session) == IF Truthy(session) THEN session ELSE "None"

\* ===== state =====
VARIABLES
    currentChatSession,          \* AppState.currentChatSession
    currentConversationHistory,  \* AppState.currentConversationHistory
    abortControllers,            \* AppState.abortControllers: requestId -> controller
    calls,                       \* the apiCall invocations awaiting fetch / response.json
    now,                         \* Date.now()
    chatInterfaceShown,          \* Elements.chatInterface shown, chatUploadSection hidden
    currentSessionId,            \* Elements.currentSessionId.textContent
    chatMessages,                \* Elements.chatMessages: the rendered transcript
    chatInputDisabled,           \* Elements.chatInput.disabled
    chatSendBtnDisabled,         \* Elements.chatSendBtn.disabled
    chatUploadBtnDisabled,       \* Elements.chatUploadBtn.disabled
    analysisSubmitBtnDisabled,   \* Elements.analysisSubmitBtn.disabled
    comparisonSubmitBtnDisabled, \* Elements.comparisonSubmitBtn.disabled
    analysisResultShown,         \* Elements.analysisResult shown
    comparisonResultShown,       \* Elements.comparisonResult shown
    unloading,                   \* beforeunload has fired: the page is being left
    keepalive,                   \* the beforeunload fetch(qaEnd, keepalive) is in flight
    toastClasses,                \* toastManager.toast.classList
    toastMessage,                \* toastManager.toastMessage.textContent
    timeoutId,                   \* toastManager.timeoutId
    timers,                      \* the setTimeout callbacks of the toast manager that are pending
    toasts,                      \* the toasts shown by the last step, in order
    lastEvent                    \* what the last step was (history variable)

store == <<currentChatSession, currentConversationHistory>>
gateway == <<abortControllers, calls>>
chatView == <<chatInterfaceShown, currentSessionId, chatMessages>>
controls == <<chatInputDisabled, chatSendBtnDisabled, chatUploadBtnDisabled>>
services == <<analysisSubmitBtnDisabled, comparisonSubmitBtnDisabled,
              analysisResultShown, comparisonResultShown>>
page == <<unloading, keepalive>>
toastManager == <<toastClasses, toastMessage, timeoutId, timers>>
vars == <<currentChatSession, currentConversationHistory, abortControllers, calls, now,
          chatInterfaceShown, currentSessionId, chatMessages, chatInputDisabled,
          chatSendBtnDisabled, chatUploadBtnDisabled, analysisSubmitBtnDisabled,
          comparisonSubmitBtnDisabled, analysisResultShown, comparisonResultShown,
          unloading, keepalive, toastClasses, toastMessage, timeoutId, timers, toasts,
          lastEvent>>

\* ===== inputs =====
\* what the user may have typed in the chat input
InputValues == { <<>>, <<" ">>, <<"q">>, <<" ", "q", " ">> }
File(name, size) == [name |-> name, size |-> size]
\* file selections offered to the chat upload form
UploadSelections ==
    { <<>>,
      << File(<<"r", ".", "p", "d", "f">>, 2 * 1024 * 1024) >>,
      << File(<<"r", ".", "P", "D", "F">>, 1), File(<<"n", ".", "t", "x", "t">>, maxFileSize) >>,
      << File(<<"x", ".", "e", "x", "e">>, 0) >> }

\* file selections offered to the service forms: the ones above, a file over the
\* size limit, a name without a dot, a name with two dots, five files and six files
Report(size) == File(<<"r", ".", "p", "d", "f">>, size)
FormSelections ==
    UploadSelections \cup
    { << File(<<"b", ".", "d", "o", "c", "x">>, maxFileSize + 1) >>,
      << File(<<"p", "d", "f">>, 1000) >>,
      << File(<<"a", ".", "b", ".", "d", "o", "c">>, 1000) >>,
      << Report(1), Report(2), Report(3), Report(4), Report(5) >>,
      << Report(1), Report(2), Report(3), Report(4), Report(5), Report(6) >> }
\* file selections offered to each of the two inputs of the comparison form
ComparisonSelections ==
    { <<>>,
      << Report(2 * 1024 * 1024) >>,
      << File(<<"x", ".", "e", "x", "e">>, 0) >>,
      << File(<<"b", ".", "d", "o", "c", "x">>, maxFileSize + 1) >> }

\* ===== toasts and events =====
Toast(type, message) == [type |-> type, message |-> message]
NoBody == [success |-> FALSE, session |-> NULL, conversation_history |-> <<>>,
           latest_answer |-> UNDEFINED, error |-> "<no body>"]
\* what a step was: the operation, what happened to it, the response body it
\* applied, the file selections it read, and what apiCall handed to its caller
Event(op, ev, body) ==
    [op |-> op, ev |-> ev, body |-> body, inputs |-> <<>>,
     kind |-> "none", name |-> "", message |-> ""]
\* a step of the page that is not the arrival of a response body
Local(op, ev) == Event(op, ev, NoBody)
\* a submit handler has read the selections of its file inputs
Submitted(op, ev, inputs) == [Local(op, ev) EXCEPT !.inputs = inputs]
\* apiCall has returned or thrown r to the handler of op
Settled(op, ev, r) ==
    [Event(op, ev, r.body) EXCEPT !.kind = r.kind, !.name = r.name, !.message = r.message]

\* ===== request gateway (apiCall, main.js:445-476) =====
\* new AbortController(): the model names the controller by a free index
freeController == CHOOSE i \in 1..MaxCalls : \A c \in calls : c.id # i
\* const requestId = Date.now().toString()
requestId == now
\* AppState.abortControllers.set(requestId, abortController)
mapSet(m, k, v) == [x \in DOMAIN m \cup {k} |-> IF x = k THEN v ELSE m[x]]
\* AppState.abortControllers.delete(requestId)
mapDelete(m, k) == [x \in DOMAIN m \ {k} |-> m[x]]

\* History only (the code keeps no such value and nothing reads it): the session an
\* end or clear request is about, which is the one stored when the handler issued it
issuedFor(op) == IF op \in {"end", "clear"} THEN currentChatSession ELSE NULL

\* apiCall up to its first await: the controller is registered, fetch is started
apiCall(op) ==
    /\ Cardinality(calls) < MaxCalls
    /\ abortControllers' = mapSet(abortControllers, requestId, freeController)
    /\ calls' = calls \cup { [id |-> freeController, op |-> op, rid |-> requestId,
                              aborted |-> FALSE, session |-> issuedFor(op)] }

\* apiCall's finally block when call c settles
apiCallFinally(c) ==
    /\ abortControllers' = mapDelete(abortControllers, c.rid)
    /\ calls' = calls \ {c}

\* an Error object as the handlers see it: its name and its message
Err(name, message) == [name |-> name, message |-> message]

\* a catch that turns whatever was thrown into the cancellation error
apiCallCatch_wrapsAll(error) == Err("Error", "Request was cancelled")

\* apiCall's catch (main.js:468-472): an AbortError becomes
\* Error('Request was cancelled'), anything else is thrown again as it is
apiCallCatch(error) ==
    IF error.name = "AbortError" THEN Err("Error", "Request was cancelled") ELSE error

\* what apiCall hands to its caller: the parsed body, or the error its catch throws
Data(body) == [kind |-> "data", body |-> body, name |-> "", message |-> ""]
Thrown(error) ==
    [kind |-> "error", body |-> NoBody,
     name |-> apiCallCatch(error).name, message |-> apiCallCatch(error).message]

\* cancelAllRequests (main.js:478-483): abort every registered controller, clear the map
cancelAllRequests ==
    /\ calls' = { [c EXCEPT !.aborted = c.aborted \/
                                (\E k \in DOMAIN abortControllers : abortControllers[k] = c.id)]
                  : c \in calls }
    /\ abortControllers' = << >>


\* ===== session store and rendering =====
\* appendChatMessage(sender, text)
appendChatMessage(messages, sender, text) ==
    Append(messages, [sender |-> sender, text |-> text])

\* switchToChatInterface without its call of displayConversationHistory()
switchToChatInterface_noRender(result) ==
    /\ chatInterfaceShown' = TRUE
    /\ currentChatSession' = result.session
    /\ currentConversationHistory' = result.conversation_history
    /\ currentSessionId' = updateSessionDisplay(result.session)
    /\ chatMessages' = chatMessages

\* switchToChatInterface assigning the session only
switchToChatInterface_keepsHistory(result) ==
    /\ chatInterfaceShown' = TRUE
    /\ currentChatSession' = result.session
    /\ currentConversationHistory' = currentConversationHistory
    /\ currentSessionId' = updateSessionDisplay(result.session)
    /\ chatMessages' = displayConversationHistory(currentConversationHistory)

\* switchToChatInterface(result) (main.js:649-663); every success body of the
\* server carries conversation_history, so `|| []` leaves it as it is
switchToChatInterface(result) ==
    /\ chatInterfaceShown' = TRUE
    /\ currentChatSession' = result.session
    /\ currentConversationHistory' = result.conversation_history
    /\ currentSessionId' = updateSessionDisplay(result.session)
    /\ chatMessages' = displayConversationHistory(result.conversation_history)

\* resetChatInterface() (main.js:795-815)
resetChatInterface ==
    /\ chatInterfaceShown' = FALSE
    /\ currentChatSession' = NULL
    /\ currentConversationHistory' = <<>>
    /\ currentSessionId' = updateSessionDisplay(NULL)
    /\ chatMessages' = appendChatMessage(<<>>, "bot", GreetingUpload)

\* error.message || fallback, data.error || fallback
orElse(text, fallback) == IF text \in {UNDEFINED, ""} THEN fallback ELSE text

\* ===== continuations: the code after `await apiCall(...)` of each handler =====
\* r is what apiCall returned or threw; succeeded(r) is `data.success` on a returned body
succeeded(r) == r.kind = "data" /\ r.body.success

\* the text of the error toast: data.error || fallback, error.message || fallback
errorText(r, failText, catchText) ==
    IF r.kind = "data" THEN orElse(r.body.error, failText) ELSE orElse(r.message, catchText)

\* handleDocumentUpload, `if (data.success)` branch (main.js:633-635)
uploadSucceeded(r) ==
    /\ switchToChatInterface(r.body)
    /\ toasts' = << Toast("success", "Documents uploaded successfully!") >>

\* a failing upload that falls back to the no-session state
uploadFailed_resets(r) ==
    /\ resetChatInterface
    /\ toasts' = << Toast("error", errorText(r, "Upload failed. Please try again.",
                                             "Network error. Please try again.")) >>

\* handleDocumentUpload, else branch and catch (main.js:636-641)
uploadFailed(r) ==
    /\ UNCHANGED <<store, chatView>>
    /\ toasts' = << Toast("error", errorText(r, "Upload failed. Please try again.",
                                             "Network error. Please try again.")) >>

\* handleDocumentUpload after the await, with its finally (main.js:633-646)
uploadSettled(r) ==
    /\ IF succeeded(r) THEN uploadSucceeded(r) ELSE uploadFailed(r)
    /\ chatUploadBtnDisabled' = FALSE
    /\ UNCHANGED <<chatInputDisabled, chatSendBtnDisabled, services>>

\* a turn success that takes the session of the response and keeps the local history
turnSucceeded_keepsHistory(r) ==
    /\ currentChatSession' = r.body.session
    /\ currentConversationHistory' = currentConversationHistory
    /\ currentSessionId' = updateSessionDisplay(r.body.session)
    /\ chatMessages' = appendChatMessage(chatMessages, "bot",
                                         orElse(r.body.latest_answer, Processed))
    /\ toasts' = <<>>

\* sendChatMessage, `if (data.success)` branch (main.js:723-729)
turnSucceeded(r) ==
    /\ currentChatSession' = r.body.session
    /\ currentConversationHistory' = r.body.conversation_history
    /\ currentSessionId' = updateSessionDisplay(r.body.session)
    /\ chatMessages' = appendChatMessage(chatMessages, "bot",
                                         orElse(r.body.latest_answer, Processed))
    /\ toasts' = <<>>

\* a failing turn that merges its provisional entry into the stored history
turnFailed_mergesLocally(r) ==
    /\ currentConversationHistory' =
           Append(currentConversationHistory, QaEntry("q", Apology))
    /\ UNCHANGED <<currentChatSession, currentSessionId>>
    /\ chatMessages' = appendChatMessage(chatMessages, "bot",
                                         IF r.kind = "data" THEN Apology ELSE ConnectionIssues)
    /\ toasts' = << Toast("error", errorText(r, "Request failed",
                                             "Network error - please try again")) >>

\* sendChatMessage, else branch and catch (main.js:730-737)
turnFailed(r) ==
    /\ UNCHANGED <<store, currentSessionId>>
    /\ chatMessages' = appendChatMessage(chatMessages, "bot",
                                         IF r.kind = "data" THEN Apology ELSE ConnectionIssues)
    /\ toasts' = << Toast("error", errorText(r, "Request failed",
                                             "Network error - please try again")) >>

\* a turn without its finally: input and send button stay as they are
enableSubmission_never ==
    /\ chatInputDisabled' = chatInputDisabled
    /\ chatSendBtnDisabled' = chatSendBtnDisabled

\* sendChatMessage, finally (main.js:738-742)
enableSubmission ==
    /\ chatInputDisabled' = FALSE
    /\ chatSendBtnDisabled' = FALSE

\* sendChatMessage after the await (main.js:723-742)
turnSettled(r) ==
    /\ IF succeeded(r) THEN turnSucceeded(r) ELSE turnFailed(r)
    /\ enableSubmission
    /\ UNCHANGED <<chatInterfaceShown, chatUploadBtnDisabled, services>>

\* handlePromiseRejection (main.js:862-865): what the page shows when a rejection
\* of a handler's promise is left unhandled
handlePromiseRejection == << Toast("error", "An unexpected error occurred") >>

\* saveAndEndChat without its catch: what apiCall throws escapes the handler
endSettled_uncaught(r) ==
    /\ IF succeeded(r)
       THEN /\ toasts' = << Toast("success", "Chat session saved successfully") >>
            /\ resetChatInterface
       ELSE /\ UNCHANGED <<store, chatView>>
            /\ toasts' = IF r.kind = "data"
                         THEN << Toast("error", orElse(r.body.error, "Failed to save session")) >>
                         ELSE handlePromiseRejection
    /\ UNCHANGED <<controls, services>>

\* saveAndEndChat after the await (main.js:756-765)
endSettled(r) ==
    /\ IF succeeded(r)
       THEN /\ toasts' = << Toast("success", "Chat session saved successfully") >>
            /\ resetChatInterface
       ELSE /\ UNCHANGED <<store, chatView>>
            /\ toasts' = << Toast("error", errorText(r, "Failed to save session",
                                                     "Error saving chat session")) >>
    /\ UNCHANGED <<controls, services>>

\* a clear that resets the chat however its call settled
clearSettled_unconditional(r) ==
    /\ toasts' = IF succeeded(r)
                 THEN << Toast("success", "Chat session cleared") >>
                 ELSE << Toast("error", errorText(r, "Failed to clear session",
                                                  "Error clearing chat session")) >>
    /\ resetChatInterface
    /\ UNCHANGED <<controls, services>>

\* clearChatSession after the await (main.js:783-792)
clearSettled(r) ==
    /\ IF succeeded(r)
       THEN /\ toasts' = << Toast("success", "Chat session cleared") >>
            /\ resetChatInterface
       ELSE /\ UNCHANGED <<store, chatView>>
            /\ toasts' = << Toast("error", errorText(r, "Failed to clear session",
                                                     "Error clearing chat session")) >>
    /\ UNCHANGED <<controls, services>>

\* a recovery that adopts every success body, with or without a session
recoverSettled_adoptsAny(r) ==
    /\ IF succeeded(r)
       THEN /\ switchToChatInterface(r.body)
            /\ toasts' = << Toast("info", "Previous chat session restored") >>
       ELSE /\ UNCHANGED <<store, chatView>>
            /\ toasts' = <<>>
    /\ UNCHANGED <<controls, services>>

\* loadExistingSession after the await (main.js:821-827): the catch only logs
recoverSettled(r) ==
    /\ IF succeeded(r) /\ Truthy(r.body.session)
       THEN /\ switchToChatInterface(r.body)
            /\ toasts' = << Toast("info", "Previous chat session restored") >>
       ELSE /\ UNCHANGED <<store, chatView>>
            /\ toasts' = <<>>
    /\ UNCHANGED <<controls, services>>

\* handleAnalysisSubmit after the await (main.js:518-530)
analysisSettled(r) ==
    /\ IF succeeded(r)
       THEN /\ analysisResultShown' = TRUE
            /\ toasts' = << Toast("success", "Document analysis completed successfully!") >>
       ELSE /\ UNCHANGED analysisResultShown
            /\ toasts' = << Toast("error", errorText(r, "Analysis failed. Please try again.",
                                                     "Server error. Please try again later.")) >>
    /\ analysisSubmitBtnDisabled' = FALSE
    /\ UNCHANGED <<store, chatView, controls, comparisonSubmitBtnDisabled,
                   comparisonResultShown>>

\* handleComparisonSubmit after the await (main.js:570-582)
comparisonSettled(r) ==
    /\ IF succeeded(r)
       THEN /\ comparisonResultShown' = TRUE
            /\ toasts' = << Toast("success", "Document comparison completed successfully!") >>
       ELSE /\ UNCHANGED comparisonResultShown
            /\ toasts' = << Toast("error", errorText(r, "Comparison failed. Please try again.",
                                                     "Server error. Please try again later.")) >>
    /\ comparisonSubmitBtnDisabled' = FALSE
    /\ UNCHANGED <<store, chatView, controls, analysisSubmitBtnDisabled,
                   analysisResultShown>>

\* the caller of apiCall resumes with what apiCall returned or threw
resume(c, r) ==
    CASE c.op = "upload" -> uploadSettled(r)
      [] c.op = "turn" -> turnSettled(r)
      [] c.op = "end" -> endSettled(r)
      [] c.op = "clear" -> clearSettled(r)
      [] c.op = "recover" -> recoverSettled(r)
      [] c.op = "analysis" -> analysisSettled(r)
      [] c.op = "comparison" -> comparisonSettled(r)

\* call c settles with r: apiCall's finally, then the caller's continuation
settle(c, r, ev) ==
    /\ apiCallFinally(c)
    /\ resume(c, r)
    /\ lastEvent' = Settled(c.op, ev, r)
    /\ UNCHANGED <<now, unloading, keepalive, toastManager>>


\* ===== initial state: after initializeApp() has run (main.js:195-202) =====
\* loadExistingSession() has called apiCall(qaSession) and awaits it
Init ==
    /\ currentChatSession = NULL
    /\ currentConversationHistory = <<>>
    /\ now = 0
    /\ abortControllers = [k \in {now} |-> 1]
    /\ calls = { [id |-> 1, op |-> "recover", rid |-> now, aborted |-> FALSE,
                  session |-> NULL] }
    /\ chatInterfaceShown = FALSE
    /\ currentSessionId = "None"
    /\ chatMessages = <<>>
    /\ chatInputDisabled = FALSE
    /\ chatSendBtnDisabled = FALSE
    /\ chatUploadBtnDisabled = FALSE
    /\ analysisSubmitBtnDisabled = FALSE
    /\ comparisonSubmitBtnDisabled = FALSE
    /\ analysisResultShown = FALSE
    /\ comparisonResultShown = FALSE
    /\ unloading = FALSE
    /\ keepalive = FALSE
    /\ toastClasses = {}
    /\ toastMessage = ""
    /\ timeoutId = NULL
    /\ timers = <<>>
    /\ toasts = <<>>
    /\ lastEvent = Local("recover", "start")

\* ===== user actions: none reaches a page that is being left =====
\* time passes; Date.now() is read only for the requestId of a new call, so a
\* tick is taken when a call in flight carries the current reading
Tick ==
    /\ now < MaxClock
    /\ \E c \in calls : c.rid = now
    /\ now' = now + 1
    /\ lastEvent' = Local("clock", "tick")
    /\ toasts' = <<>>
    /\ UNCHANGED <<store, gateway, chatView, controls, services, page, toastManager>>

\* handleDocumentUpload(e) up to `await apiCall` (main.js:601-631); the form is
\* submitted through its button, which is disabled while an upload is in flight
handleDocumentUpload(files) ==
    /\ ~unloading
    /\ ~chatUploadBtnDisabled
    /\ IF Len(files) = 0
       THEN /\ toasts' = << Toast("error", "Please select files to upload.") >>
            /\ lastEvent' = Submitted("upload", "rejected", <<files>>)
            /\ UNCHANGED <<gateway, chatUploadBtnDisabled>>
       ELSE IF Len(validateFiles(files, maxFiles)) > 0
       THEN /\ toasts' = [i \in 1..Len(validateFiles(files, maxFiles)) |->
                             Toast("error", validateFiles(files, maxFiles)[i][1])]
            /\ lastEvent' = Submitted("upload", "rejected", <<files>>)
            /\ UNCHANGED <<gateway, chatUploadBtnDisabled>>
       ELSE /\ chatUploadBtnDisabled' = TRUE
            /\ apiCall("upload")
            /\ toasts' = <<>>
            /\ lastEvent' = Submitted("upload", "start", <<files>>)
    /\ UNCHANGED <<store, now, chatView, chatInputDisabled, chatSendBtnDisabled,
                   services, page, toastManager>>

\* the toasts of `errors.forEach(error => Toast.error(error))`
errorToasts(errors) == [i \in 1..Len(errors) |-> Toast("error", errors[i][1])]

\* handleAnalysisSubmit(e) up to `await apiCall` (main.js:486-516)
handleAnalysisSubmit(files) ==
    /\ ~unloading
    /\ ~analysisSubmitBtnDisabled
    /\ IF Len(files) = 0
       THEN /\ toasts' = << Toast("error", "Please select files to analyze.") >>
            /\ lastEvent' = Submitted("analysis", "rejected", <<files>>)
            /\ UNCHANGED <<gateway, analysisSubmitBtnDisabled>>
       ELSE IF Len(validateFiles(files, maxFiles)) > 0
       THEN /\ toasts' = errorToasts(validateFiles(files, maxFiles))
            /\ lastEvent' = Submitted("analysis", "rejected", <<files>>)
            /\ UNCHANGED <<gateway, analysisSubmitBtnDisabled>>
       ELSE /\ analysisSubmitBtnDisabled' = TRUE
            /\ apiCall("analysis")
            /\ toasts' = <<>>
            /\ lastEvent' = Submitted("analysis", "start", <<files>>)
    /\ UNCHANGED <<store, now, chatView, controls, comparisonSubmitBtnDisabled,
                   analysisResultShown, comparisonResultShown, page, toastManager>>

\* handleComparisonSubmit(e) up to `await apiCall` (main.js:534-568)
handleComparisonSubmit(filesA, filesB) ==
    /\ ~unloading
    /\ ~comparisonSubmitBtnDisabled
    /\ LET allErrors == validateFiles(filesA, maxFiles) \o validateFiles(filesB, maxFiles) IN
       IF Len(filesA) = 0 \/ Len(filesB) = 0
       THEN /\ toasts' = << Toast("error", "Please select files for both sets.") >>
            /\ lastEvent' = Submitted("comparison", "rejected", <<filesA, filesB>>)
            /\ UNCHANGED <<gateway, comparisonSubmitBtnDisabled>>
       ELSE IF Len(allErrors) > 0
       THEN /\ toasts' = errorToasts(allErrors)
            /\ lastEvent' = Submitted("comparison", "rejected", <<filesA, filesB>>)
            /\ UNCHANGED <<gateway, comparisonSubmitBtnDisabled>>
       ELSE /\ comparisonSubmitBtnDisabled' = TRUE
            /\ apiCall("comparison")
            /\ toasts' = <<>>
            /\ lastEvent' = Submitted("comparison", "start", <<filesA, filesB>>)
    /\ UNCHANGED <<store, now, chatView, controls, analysisSubmitBtnDisabled,
                   analysisResultShown, comparisonResultShown, page, toastManager>>

\* a submission that leaves the input and the send button enabled
disableSubmission_forgets ==
    /\ chatInputDisabled' = chatInputDisabled
    /\ chatSendBtnDisabled' = chatSendBtnDisabled

\* Elements.chatInput.disabled = true; setButtonState(Elements.chatSendBtn, true, ...)
disableSubmission ==
    /\ chatInputDisabled' = TRUE
    /\ chatSendBtnDisabled' = TRUE

\* sendChatMessage() up to `await apiCall` (main.js:694-721), started by Enter in the
\* chat input (handleChatKeypress) or by the send button: neither fires when disabled
sendChatMessage(value) ==
    /\ ~unloading
    /\ ~chatInputDisabled \/ ~chatSendBtnDisabled
    /\ LET question == Trim(value) IN
       IF question = <<>>
       THEN /\ toasts' = << Toast("warning", "Please enter a question") >>
            /\ lastEvent' = Local("turn", "rejected")
            /\ UNCHANGED <<gateway, chatMessages, chatInputDisabled, chatSendBtnDisabled>>
       ELSE IF ~Truthy(currentChatSession)
       THEN /\ toasts' = << Toast("error", "Please upload documents first") >>
            /\ lastEvent' = Local("turn", "rejected")
            /\ UNCHANGED <<gateway, chatMessages, chatInputDisabled, chatSendBtnDisabled>>
       ELSE /\ Len(chatMessages) + 2 <= MaxTranscript
            /\ chatMessages' = appendChatMessage(chatMessages, "user", Text(question))
            /\ disableSubmission
            /\ apiCall("turn")
            /\ toasts' = <<>>
            /\ lastEvent' = Local("turn", "start")
    /\ UNCHANGED <<store, now, chatInterfaceShown, currentSessionId,
                   chatUploadBtnDisabled, services, page, toastManager>>

\* saveAndEndChat() up to `await apiCall` (main.js:745-754)
saveAndEndChat ==
    /\ ~unloading
    /\ IF ~Truthy(currentChatSession)
       THEN /\ toasts' = << Toast("warning", "No active chat session to save") >>
            /\ lastEvent' = Local("end", "rejected")
            /\ UNCHANGED gateway
       ELSE /\ apiCall("end")
            /\ toasts' = <<>>
            /\ lastEvent' = Local("end", "start")
    /\ UNCHANGED <<store, now, chatView, controls, services, page, toastManager>>

\* a clear that does not wait for the answer to its prompt
clearChatSession_unconfirmed(confirmed) ==
    /\ ~unloading
    /\ IF ~Truthy(currentChatSession)
       THEN /\ toasts' = << Toast("warning", "No active chat session to clear") >>
            /\ lastEvent' = Local("clear", "rejected")
            /\ UNCHANGED gateway
       ELSE /\ apiCall("clear")
            /\ toasts' = <<>>
            /\ lastEvent' = Local("clear", "start")
    /\ UNCHANGED <<store, now, chatView, controls, services, page, toastManager>>

\* clearChatSession() up to `await apiCall` (main.js:768-781); confirmed is the
\* answer to the confirm() prompt
clearChatSession(confirmed) ==
    /\ ~unloading
    /\ IF ~Truthy(currentChatSession)
       THEN /\ toasts' = << Toast("warning", "No active chat session to clear") >>
            /\ lastEvent' = Local("clear", "rejected")
            /\ UNCHANGED gateway
       ELSE IF ~confirmed
       THEN /\ toasts' = <<>>
            /\ lastEvent' = Local("clear", "declined")
            /\ UNCHANGED gateway
       ELSE /\ apiCall("clear")
            /\ toasts' = <<>>
            /\ lastEvent' = Local("clear", "start")
    /\ UNCHANGED <<store, now, chatView, controls, services, page, toastManager>>

\* an unload that sends its end-session request with or without a session
beforeunload_always ==
    /\ ~unloading
    /\ unloading' = TRUE
    /\ keepalive' = TRUE
    /\ cancelAllRequests
    /\ toasts' = <<>>
    /\ lastEvent' = Local("unload", "beforeunload")
    /\ UNCHANGED <<store, now, chatView, controls, services, toastManager>>

\* the beforeunload listener (main.js:868-879)
beforeunload ==
    /\ ~unloading
    /\ unloading' = TRUE
    /\ keepalive' = Truthy(currentChatSession)
    /\ cancelAllRequests
    /\ toasts' = <<>>
    /\ lastEvent' = Local("unload", "beforeunload")
    /\ UNCHANGED <<store, now, chatView, controls, services, toastManager>>

\* the keepalive fetch of beforeunload ends; its promise has only a logging catch
keepaliveSettled ==
    /\ keepalive
    /\ keepalive' = FALSE
    /\ toasts' = <<>>
    /\ lastEvent' = Local("unload", "settled")
    /\ UNCHANGED <<store, gateway, now, chatView, controls, services, unloading,
                   toastManager>>

\* ===== network events: each resumes apiCall at its await (main.js:452-475) =====
\* fetch resolves with a non-2xx status: throw new Error(`HTTP ${status}`)
responseNotOk(c) ==
    /\ ~c.aborted
    /\ settle(c, Thrown(Err("Error", "HTTP 500")), "http")

\* fetch or response.json() rejects with a TypeError: no response reached the page
networkFailure(c) ==
    /\ ~c.aborted
    /\ settle(c, Thrown(Err("TypeError", "Failed to fetch")), "network")

\* fetch resolves with response.ok and response.json() resolves with the parsed body
jsonParsed(c, body) ==
    /\ ~c.aborted
    /\ settle(c, Data(body), IF body.success THEN "success" ELSE "failure")

\* fetch resolves with response.ok and response.json() rejects with a SyntaxError
jsonMalformed(c) ==
    /\ ~c.aborted
    /\ settle(c, Thrown(Err("SyntaxError", "Unexpected token")), "protocol")

\* the aborted fetch or response.json() rejects with an AbortError
abortDelivered(c) ==
    /\ c.aborted
    /\ settle(c, Thrown(Err("AbortError", "The operation was aborted")), "cancelled")

Next ==
    \/ Tick
    \/ \E files \in UploadSelections : handleDocumentUpload(files)
    \/ \E value \in InputValues : sendChatMessage(value)
    \/ saveAndEndChat
    \/ \E confirmed \in BOOLEAN : clearChatSession(confirmed)
    \/ beforeunload
    \/ keepaliveSettled
    \/ \E c \in calls : responseNotOk(c)
    \/ \E c \in calls : networkFailure(c)
    \/ \E c \in calls : \E body \in ResponseBodies(c.op) : jsonParsed(c, body)
    \/ \E c \in calls : jsonMalformed(c)
    \/ \E c \in calls : abortDelivered(c)

Spec == Init /\ [][Next]_vars

\* the browser delivers every abort; the server and the user are under no obligation
FairSpec == Spec /\ WF_vars(\E c \in calls : abortDelivered(c))

\* call c settles, in one of the ways a fetch and its response.json() can end
settles(c) ==
    \/ responseNotOk(c)
    \/ networkFailure(c)
    \/ \E body \in ResponseBodies(c.op) : jsonParsed(c, body)
    \/ jsonMalformed(c)
    \/ abortDelivered(c)

\* the fetch of every turn ends: with a response, an error or an abort
TurnFairSpec == Spec /\ WF_vars(\E c \in calls : c.op = "turn" /\ settles(c))

\* the forms that submit files, with recovery and unload; the chat controls (send,
\* end, clear) are left alone
FormsNext ==
    \/ Tick
    \/ \E files \in FormSelections : handleDocumentUpload(files)
    \/ \E files \in FormSelections : handleAnalysisSubmit(files)
    \/ \E filesA \in ComparisonSelections : \E filesB \in ComparisonSelections :
          handleComparisonSubmit(filesA, filesB)
    \/ beforeunload
    \/ keepaliveSettled
    \/ \E c \in calls : responseNotOk(c)
    \/ \E c \in calls : networkFailure(c)
    \/ \E c \in calls : \E body \in ResponseBodies(c.op) : jsonParsed(c, body)
    \/ \E c \in calls : jsonMalformed(c)
    \/ \E c \in calls : abortDelivered(c)

FormsSpec == Init /\ [][FormsNext]_vars

\* ===== toast manager (ToastManager, main.js:65-167) =====
\* CONFIG.toastDuration, and the delays of the two inner setTimeout calls (ms)
toastDuration == 4000
ShowDelay == 10
HidingDelay == 300
\* the classes show() puts on the toast element for a type
ToastTypes == {"success", "error", "warning", "info"}
\* a value returned by setTimeout
TimeoutHandle == "<timeout>"

\* a pending callback: what it does and the time left until it is due
Timer(kind, due) == [kind |-> kind, due |-> due]
\* setTimeout: the callback runs after those that are due no later than it
RECURSIVE setTimeout(_, _)
setTimeout(ts, t) ==
    IF ts = <<>> \/ Head(ts).due > t.due THEN <<t>> \o ts
    ELSE <<Head(ts)>> \o setTimeout(Tail(ts), t)
\* clearTimeout(this.timeoutId): timeoutId is the handle of the auto-hide callback
clearTimeout(ts, id) ==
    IF id = NULL THEN ts ELSE SelectSeq(ts, LAMBDA t : t.kind # "autoHide")
pending(kind) == Len(SelectSeq(timers, LAMBDA t : t.kind = kind))

\* ToastManager.show(message, type) with the default duration (main.js:92-129)
show(message, type) ==
    /\ pending("show") < MaxTimers
    /\ timers' = setTimeout(setTimeout(clearTimeout(timers, timeoutId),
                                       Timer("show", ShowDelay)),
                            Timer("autoHide", toastDuration))
    /\ toastClasses' = (toastClasses \ (ToastTypes \cup {"show", "hiding"})) \cup {type}
    /\ toastMessage' = message
    /\ timeoutId' = TimeoutHandle
    /\ toasts' = << Toast(type, message) >>
    /\ lastEvent' = Local("toast", "show")
    /\ UNCHANGED <<store, gateway, now, chatView, controls, services, page>>

\* the body of ToastManager.hide() (main.js:131-146) on the pending callbacks ts
hideToast(ts) ==
    /\ timers' = setTimeout(clearTimeout(ts, timeoutId), Timer("hiding", HidingDelay))
    /\ toastClasses' = (toastClasses \cup {"hiding"}) \ {"show"}
    /\ timeoutId' = NULL
    /\ UNCHANGED toastMessage

\* hide() called by a click on the toast, by its close button or through Toast.hide()
hide ==
    /\ pending("hiding") < MaxTimers
    /\ hideToast(timers)
    /\ toasts' = <<>>
    /\ lastEvent' = Local("toast", "hide")
    /\ UNCHANGED <<store, gateway, now, chatView, controls, services, page>>

\* the callback that is due next
due(kind) == timers # <<>> /\ Head(timers).due = 0 /\ Head(timers).kind = kind

\* the callback of show(), after 10 ms: classList.add('show') (main.js:118-120)
showTimer ==
    /\ due("show")
    /\ timers' = Tail(timers)
    /\ toastClasses' = toastClasses \cup {"show"}
    /\ toasts' = <<>>
    /\ lastEvent' = Local("toast", "shown")
    /\ UNCHANGED <<store, gateway, now, chatView, controls, services, page,
                   toastMessage, timeoutId>>

\* the auto-hide callback of show(), after the duration: this.hide() (main.js:124-126)
autoHideTimer ==
    /\ due("autoHide")
    /\ hideToast(Tail(timers))
    /\ toasts' = <<>>
    /\ lastEvent' = Local("toast", "autoHide")
    /\ UNCHANGED <<store, gateway, now, chatView, controls, services, page>>

\* the callback of hide(), after 300 ms: classList.remove('hiding') (main.js:143-145)
hidingTimer ==
    /\ due("hiding")
    /\ timers' = Tail(timers)
    /\ toastClasses' = toastClasses \ {"hiding"}
    /\ toasts' = <<>>
    /\ lastEvent' = Local("toast", "hidden")
    /\ UNCHANGED <<store, gateway, now, chatView, controls, services, page,
                   toastMessage, timeoutId>>

\* time passes, by a moment or up to the next callback; no callback is overrun
timePasses(d) ==
    /\ timers # <<>>
    /\ d > 0
    /\ d <= Head(timers).due
    /\ timers' = [i \in 1..Len(timers) |-> Timer(timers[i].kind, timers[i].due - d)]
    /\ toasts' = <<>>
    /\ lastEvent' = Local("toast", "wait")
    /\ UNCHANGED <<store, gateway, now, chatView, controls, services, page,
                   toastClasses, toastMessage, timeoutId>>

ToastNext ==
    \/ \E type \in {"success", "error"} : show("m", type)
    \/ hide
    \/ showTimer
    \/ autoHideTimer
    \/ hidingTimer
    \/ \E d \in {Moment} \cup {t.due : t \in {timers[i] : i \in 1..Len(timers)}} : timePasses(d)

ToastSpec == Init /\ [][ToastNext]_vars

\* the browser runs every callback that is due, and time passes
ToastFairSpec ==
    ToastSpec /\ WF_vars(showTimer) /\ WF_vars(autoHideTimer) /\ WF_vars(hidingTimer)
              /\ WF_vars(\E d \in 1..toastDuration : timePasses(d))


\* ===== claims =====
\* what the last step was
settledAs(op, ev) == lastEvent.op = op /\ lastEvent.ev = ev
adopted ==
    \/ settledAs("upload", "success")
    \/ settledAs("recover", "success") /\ Truthy(lastEvent.body.session)
ended == settledAs("end", "success") \/ settledAs("clear", "success")
uploadFailures == {"failure", "http", "network", "protocol", "cancelled"}
lastMessage == chatMessages[Len(chatMessages)]

\* C1 (as stated): whenever no request is in flight, the displayed session id is the
\* stored session and the transcript is the rendering of the stored history, which
\* is the last one received, or the empty or no-session transcript.
C1_SettledTranscriptIsLastHistory ==
    calls = {} =>
        /\ currentSessionId = updateSessionDisplay(currentChatSession)
        /\ chatMessages \in { displayConversationHistory(currentConversationHistory),
                              <<>>,
                              << [sender |-> "bot", text |-> GreetingUpload] >> }

\* C1 (amended): the displayed session id always is the rendering of the stored
\* session; right after an upload or recovery response is adopted the displayed id
\* and the transcript are the renderings of that response's session and history;
\* right after a successful end or clear they are 'None' and the no-session greeting.
C1_DisplayFollowsAdoption ==
    /\ currentSessionId = updateSessionDisplay(currentChatSession)
    /\ adopted =>
          /\ currentSessionId = (IF lastEvent.body.session = NULL THEN "None"
                                 ELSE lastEvent.body.session)
          /\ chatMessages =
                (IF lastEvent.body.conversation_history = <<>>
                 THEN << [sender |-> "bot", text |-> GreetingReady] >>
                 ELSE renderEntries(lastEvent.body.conversation_history))
    /\ ended =>
          /\ currentSessionId = "None"
          /\ chatMessages = << [sender |-> "bot", text |-> GreetingUpload] >>

\* C1 witness: an upload response with a question and an answer in its history was
\* adopted and nothing is in flight
C1_Witness ==
    /\ settledAs("upload", "success")
    /\ calls = {}
    /\ lastEvent.body.session \in Sessions
    /\ Len(chatMessages) = 2

\* C2: right after an upload response with success, the stored session and the
\* stored history both are the ones of that response.
C2_UploadAdoptsResponse ==
    settledAs("upload", "success") =>
        /\ currentChatSession = lastEvent.body.session
        /\ currentConversationHistory = lastEvent.body.conversation_history

\* C2 witness: an upload response replaced a session that a turn had been sent under
C2_Witness ==
    /\ settledAs("upload", "success")
    /\ currentChatSession = "s2"
    /\ currentConversationHistory = <<UploadEntry>>
    /\ \E c \in calls : c.op = "turn"

\* C3 (as stated): right after a turn response with success, session and history
\* are the ones of that response and the last message of the transcript is the
\* bot's message with the latest_answer of that response.
C3_TurnExposesLatestAnswer ==
    settledAs("turn", "success") =>
        /\ currentChatSession = lastEvent.body.session
        /\ currentConversationHistory = lastEvent.body.conversation_history
        /\ lastMessage = [sender |-> "bot", text |-> lastEvent.body.latest_answer]

\* C3 (amended): as C3, the last message being the latest_answer of the response
\* when it has a non-empty one and the fixed text "I've processed your request."
\* when it has none.
C3_TurnAdoptsResponse ==
    settledAs("turn", "success") =>
        /\ currentChatSession = lastEvent.body.session
        /\ currentConversationHistory = lastEvent.body.conversation_history
        /\ lastMessage = [sender |-> "bot",
                          text |-> IF lastEvent.body.latest_answer \in {UNDEFINED, ""}
                                   THEN Processed
                                   ELSE lastEvent.body.latest_answer]

\* C3 witness: a turn response with an answer and a longer history was applied
C3_Witness ==
    /\ settledAs("turn", "success")
    /\ lastEvent.body.latest_answer = "a1"
    /\ currentChatSession \in Sessions
    /\ Len(currentConversationHistory) = 2

\* C4: no step of an upload that does not end in a success response (its start,
\* its local rejection, a success:false body, an HTTP error, a network failure, a
\* malformed body, a cancellation) changes the stored session or history.
C4_FailedUploadKeepsStore ==
    [][(lastEvent'.op = "upload" /\ lastEvent'.ev # "success") => UNCHANGED store]_vars

\* C4 witness: an upload has failed while a session with a history is stored
C4_Witness ==
    /\ lastEvent.op = "upload"
    /\ lastEvent.ev \in uploadFailures
    /\ currentChatSession \in Sessions
    /\ currentConversationHistory # <<>>


\* C5: no step of a turn other than its success response (its start with the echo
\* of the question, its local rejection, a success:false body, a gateway error)
\* changes the stored session or history, and the store changes only in a step that
\* applies a success response (of an upload, a turn, a recovery, an end or a clear).
C5_TurnKeepsStoreUnlessSuccess ==
    [][/\ (lastEvent'.op = "turn" /\ lastEvent'.ev # "success") => UNCHANGED store
       /\ store' # store => /\ lastEvent'.ev = "success"
                            /\ lastEvent'.op \in Ops]_vars

\* C5 witness: a turn has failed, its apology is in the transcript and a session
\* with a history is stored
C5_Witness ==
    /\ lastEvent.op = "turn"
    /\ lastEvent.ev \in uploadFailures
    /\ currentChatSession \in Sessions
    /\ currentConversationHistory # <<>>
    /\ lastMessage.text \in {Apology, ConnectionIssues}

\* a value that is empty after trimming: every character of it is a space
Blank(value) == \A i \in 1..Len(value) : value[i] = " "

\* C6: a step of sendChatMessage on a blank value or without an active session
\* leaves the pending-request map and the set of calls in flight unchanged, shows
\* exactly one toast and changes neither session, history nor the disabled flags.
C6_RejectedTurnIsLocal ==
    [][\A value \in InputValues :
          ((Blank(value) \/ ~Truthy(currentChatSession)) /\ sendChatMessage(value))
          => /\ UNCHANGED <<gateway, store, controls>>
             /\ Len(toasts') = 1]_vars

\* C6 witness: a question was rejected while a session is active (a blank one)
C6_Witness ==
    /\ settledAs("turn", "rejected")
    /\ Truthy(currentChatSession)
    /\ toasts = << Toast("warning", "Please enter a question") >>

\* the turn requests in flight
turnsInFlight == {c \in calls : c.op = "turn"}

\* C7: at most one turn request is in flight, and while it is the chat input and
\* the send button are disabled.
C7_OneTurnInFlight ==
    /\ Cardinality(turnsInFlight) <= 1
    /\ turnsInFlight # {} => chatInputDisabled /\ chatSendBtnDisabled

\* C7 witness: a turn is in flight while a session is active and neither the number
\* of calls nor the length of the transcript would keep a second turn from starting
C7_Witness ==
    /\ turnsInFlight # {}
    /\ ~unloading
    /\ Truthy(currentChatSession)
    /\ Cardinality(calls) < MaxCalls
    /\ Len(chatMessages) + 2 <= MaxTranscript

\* the settlements of a call as events
settlements == {"success", "failure", "http", "network", "protocol", "cancelled"}

\* C8 (as stated): once cancelAllRequests has run, the pending-request map is
\* empty, every call still in flight has been aborted, and a call that settles
\* settles as cancelled.
C8_CancelAllCancelsEveryCall ==
    unloading =>
        /\ DOMAIN abortControllers = {}
        /\ \A c \in calls : c.aborted
        /\ (lastEvent.op \in Ops /\ lastEvent.ev \in settlements)
              => lastEvent.ev = "cancelled"

\* call d is registered in map m under its own controller
registeredIn(m, d) == d.rid \in DOMAIN m /\ m[d.rid] = d.id

\* C9 (as stated): the pending-request map is empty whenever no call is in flight,
\* the settlement of a call leaves no entry for its controller, and it does not
\* remove the registration of another call that is in flight before and after it.
C9_SettlementRemovesOwnRegistration ==
    /\ [](calls = {} => DOMAIN abortControllers = {})
    /\ [][(lastEvent'.op \in Ops /\ lastEvent'.ev \in settlements) =>
             /\ \A c \in calls \ calls' : \A k \in DOMAIN abortControllers' :
                    abortControllers'[k] # c.id
             /\ \A d \in calls \cap calls' :
                    registeredIn(abortControllers, d) => registeredIn(abortControllers', d)]_vars

\* C10 (as stated): every call in flight eventually settles.
C10_EveryCallSettles ==
    \A i \in 1..MaxCalls : (\E c \in calls : c.id = i) ~> ~(\E c \in calls : c.id = i)

\* C11 (as stated): a call that settles as cancelled shows no toast, whatever the
\* operation (upload, turn, end, clear, recovery, analysis, comparison).
C11_CancelledIsSilent ==
    (lastEvent.op \in Ops /\ lastEvent.ev = "cancelled") => toasts = <<>>

\* the ways a call fails other than by cancellation: a success:false body, a
\* non-2xx status, no response, a malformed body
gatewayFailures == {"failure", "http", "network", "protocol"}

\* C12: right after an upload, turn, end or clear has failed with a success:false
\* body, an HTTP error, a network failure or a malformed body, exactly one toast
\* has been shown by that step, an error toast of the handler itself and not the
\* toast of an unhandled rejection.
C12_FailureShowsOneToast ==
    (lastEvent.op \in {"upload", "turn", "end", "clear"} /\ lastEvent.ev \in gatewayFailures)
        => /\ Len(toasts) = 1
           /\ toasts[1].type = "error"
           /\ toasts # handlePromiseRejection

\* C12 witness: an end-session call has failed without a response and the toast
\* carries the message of the error
C12_Witness ==
    /\ settledAs("end", "network")
    /\ Truthy(currentChatSession)
    /\ toasts = << Toast("error", "Failed to fetch") >>

\* the class of an outcome as the caller of apiCall can tell it: a returned body,
\* or the name and the message of the error that was thrown
outcomeClass(e) ==
    CASE e.kind = "data" -> "success"
      [] e.kind = "error" /\ e.name = "TypeError" -> "network"
      [] e.kind = "error" /\ e.name = "SyntaxError" -> "protocol"
      [] e.kind = "error" /\ e.name = "Error" /\ e.message = "Request was cancelled" -> "cancelled"
      [] e.kind = "error" /\ e.name = "Error" /\ e.message = "HTTP 500" -> "http"
      [] OTHER -> "none"

\* C13: what apiCall hands to its caller tells how the call settled: a parsed body
\* for a 2xx response with a well-formed body, and for a non-2xx status, a
\* cancellation, a missing response and a malformed body four errors that differ in
\* name or message, each class from exactly its own kind of settlement.
C13_OutcomeTellsSettlement ==
    (lastEvent.op \in Ops /\ lastEvent.ev \in settlements)
        => outcomeClass(lastEvent) =
               (IF lastEvent.ev \in {"success", "failure"} THEN "success" ELSE lastEvent.ev)

\* C13 witness: an aborted upload has settled and its handler was handed
\* Error('Request was cancelled') in place of the AbortError of fetch
C13_Witness ==
    /\ settledAs("upload", "cancelled")
    /\ lastEvent.kind = "error"
    /\ lastEvent.name = "Error"
    /\ lastEvent.message = "Request was cancelled"

\* the recovery call of loadExistingSession is in flight
recoveryInFlight == \E c \in calls : c.op = "recover"

\* C14 (as stated): there is at most one recovery call, and while it is in flight
\* no upload or turn request is in flight and no upload response is applied.
C14_RecoveryBeforeChat ==
    /\ Cardinality({c \in calls : c.op = "recover"}) <= 1
    /\ recoveryInFlight =>
          /\ \A c \in calls : c.op \notin {"upload", "turn"}
          /\ ~settledAs("upload", "success")

\* the step that is taken settles the recovery call without an active session: a
\* success:false body, a success body without a session, an HTTP error, a network
\* failure, a malformed body or a cancellation
recoveryFindsNoSession ==
    /\ lastEvent'.op = "recover"
    /\ lastEvent'.ev \in settlements
    /\ ~(lastEvent'.ev = "success" /\ Truthy(lastEvent'.body.session))

\* C15: a recovery that settles without an active session leaves session, history
\* and the chat view as they are (the no-session state stays the no-session state)
\* and shows no toast; right after a recovery that returned an active session, the
\* stored session and history are the ones of its response.
C15_RecoveryAdoptsOrLeaves ==
    /\ [][recoveryFindsNoSession =>
             /\ UNCHANGED <<store, chatView>>
             /\ (currentChatSession = NULL /\ currentConversationHistory = <<>>)
                   => (currentChatSession' = NULL /\ currentConversationHistory' = <<>>)
             /\ toasts' = <<>>]_vars
    /\ []((settledAs("recover", "success") /\ Truthy(lastEvent.body.session))
            => /\ currentChatSession = lastEvent.body.session
               /\ currentConversationHistory = lastEvent.body.conversation_history)

\* C15 witness: the recovery call has answered success with a history but without
\* a session, and the page is still without session, history, chat and toast
C15_Witness ==
    /\ settledAs("recover", "success")
    /\ lastEvent.body.session = NULL
    /\ lastEvent.body.conversation_history # <<>>
    /\ currentChatSession = NULL
    /\ currentConversationHistory = <<>>
    /\ ~chatInterfaceShown
    /\ toasts = <<>>

\* C16: right after an end or clear call has returned success the stored session
\* is null, the stored history is empty and the page shows the no-session view; no
\* other step of an end or a clear (its start, its rejection, a declined prompt, a
\* success:false body, a gateway error) changes the stored session or history.
C16_EndClearsExactlyOnSuccess ==
    /\ [](ended => /\ currentChatSession = NULL
                   /\ currentConversationHistory = <<>>
                   /\ ~chatInterfaceShown
                   /\ currentSessionId = "None")
    /\ [][(lastEvent'.op \in {"end", "clear"} /\ lastEvent'.ev # "success")
             => UNCHANGED store]_vars

\* C16 witness: a clear call has failed with an HTTP error while a session with a
\* history is stored and shown
C16_Witness ==
    /\ settledAs("clear", "http")
    /\ currentChatSession \in Sessions
    /\ currentConversationHistory # <<>>
    /\ chatInterfaceShown

\* the step that is taken adds a call of operation op to the calls in flight
issues(op) == \E c \in calls' : c.op = op /\ \A d \in calls : d.id # c.id

\* C17: a step of clearChatSession in which the user does not confirm issues no
\* call and changes neither the pending-request map, the session, the history, the
\* chat view nor the controls; a clear call is issued only by a step of
\* clearChatSession in which the user confirms; and right after a clear call has
\* returned success the stored session is null.
C17_ClearNeedsConfirmation ==
    /\ [][/\ clearChatSession(FALSE) =>
                /\ ~issues("clear")
                /\ UNCHANGED <<gateway, store, chatView, controls>>
          /\ issues("clear") => clearChatSession(TRUE)]_vars
    /\ [](settledAs("clear", "success") => currentChatSession = NULL)

\* C17 witness: the user has declined the prompt while a session with a history is
\* active and nothing is in flight
C17_Witness ==
    /\ settledAs("clear", "declined")
    /\ currentChatSession \in Sessions
    /\ currentConversationHistory # <<>>
    /\ calls = {}

\* call c is registered in the pending-request map under some request id
registered(c) == \E k \in DOMAIN abortControllers : abortControllers[k] = c.id

\* C18: the step of the beforeunload listener puts an end-session request in flight
\* exactly when a session is stored; it aborts every call whose controller is in the
\* pending-request map and empties the map; the end-session request is no call of
\* the gateway (no call is added, so nothing can abort it), and it is still in
\* flight after the step; neither that step nor the end of the request changes
\* session, history or chat view, or shows a toast.
C18_UnloadEndsAndCancels ==
    [][/\ (lastEvent'.op = "unload" /\ lastEvent'.ev = "beforeunload") =>
             /\ keepalive' = Truthy(currentChatSession)
             /\ \A c \in calls : registered(c) =>
                    \E d \in calls' : d.id = c.id /\ d.op = c.op /\ d.aborted
             /\ DOMAIN abortControllers' = {}
             /\ {d.id : d \in calls'} = {c.id : c \in calls}
             /\ UNCHANGED <<store, chatView>>
             /\ toasts' = <<>>
       /\ (lastEvent'.op = "unload" /\ lastEvent'.ev = "settled") =>
             /\ keepalive /\ ~keepalive'
             /\ UNCHANGED <<store, chatView, gateway>>
             /\ toasts' = <<>>
       /\ (keepalive /\ ~keepalive') => (lastEvent'.op = "unload" /\ lastEvent'.ev = "settled")]_vars

\* C18 witness: the page is left while a session is active and a turn is in flight:
\* the turn is aborted and the end-session request is in flight
C18_Witness ==
    /\ settledAs("unload", "beforeunload")
    /\ keepalive
    /\ Truthy(currentChatSession)
    /\ \E c \in calls : c.op = "turn" /\ c.aborted

\* ----- file selections as the specification words them -----
\* the extension of a name: the suffix that starts at its last dot, none (the
\* empty sequence) for a name without a dot
RECURSIVE extensionOf(_)
extensionOf(name) ==
    IF \A i \in 1..Len(name) : name[i] # "." THEN <<>>
    ELSE IF \E i \in 2..Len(name) : name[i] = "." THEN extensionOf(Tail(name))
    ELSE name
\* the extension is one of .pdf, .doc, .docx, .txt, letter case aside
allowedExtension(name) == toLowerCase(extensionOf(name)) \in allowedFileTypes
\* a file of 1 byte to 10 MiB with an allowed extension
validFile(file) ==
    /\ file.size >= 1
    /\ file.size <= maxFileSize
    /\ allowedExtension(file.name)
\* a selection of one to five valid files
validSelection(files) ==
    /\ Len(files) >= 1
    /\ Len(files) <= maxFiles
    /\ \A i \in 1..Len(files) : validFile(files[i])

\* the last step was a submit handler reading its file inputs
submitted ==
    /\ lastEvent.op \in {"upload", "analysis", "comparison"}
    /\ lastEvent.ev \in {"start", "rejected"}

\* C19 (as stated): for every selection a submit handler reads, validateFiles
\* returns no error exactly when the selection is valid: one to five files, each of
\* 1 byte to 10 MiB and with an extension among .pdf, .doc, .docx, .txt.
C19_ValidateAcceptsExactlyValid ==
    submitted =>
        \A i \in 1..Len(lastEvent.inputs) :
            (validateFiles(lastEvent.inputs[i], maxFiles) = <<>>)
                <=> validSelection(lastEvent.inputs[i])

\* the number of rules a file violates: size over the limit, extension not
\* allowed, no content
fileViolations(file) ==
    (IF file.size > maxFileSize THEN 1 ELSE 0)
    + (IF ~allowedExtension(file.name) THEN 1 ELSE 0)
    + (IF file.size = 0 THEN 1 ELSE 0)
RECURSIVE filesViolations(_)
filesViolations(files) ==
    IF files = <<>> THEN 0 ELSE fileViolations(Head(files)) + filesViolations(Tail(files))
\* the number of rules a selection violates: empty, or too many files and the
\* violations of each file
violations(files) ==
    IF Len(files) = 0 THEN 1
    ELSE (IF Len(files) > maxFiles THEN 1 ELSE 0) + filesViolations(files)

\* C20 (as stated): for every invalid selection a submit handler reads,
\* validateFiles returns as many errors as the selection violates rules, and the
\* step of the handler is a rejection: it adds no call and leaves the
\* pending-request map as it is.
C20_InvalidSelectionIsReportedAndKept ==
    /\ [](submitted =>
            \A i \in 1..Len(lastEvent.inputs) :
                ~validSelection(lastEvent.inputs[i]) =>
                    /\ Len(validateFiles(lastEvent.inputs[i], maxFiles))
                           = violations(lastEvent.inputs[i])
                    /\ lastEvent.ev = "rejected")
    /\ [][(submitted' /\ \E i \in 1..Len(lastEvent'.inputs) :
                             ~validSelection(lastEvent'.inputs[i]))
             => UNCHANGED gateway]_vars

\* the toast is displayed
displayed == "show" \in toastClasses

\* C21 (as stated): a displayed toast always has its auto-hide callback pending
\* (so it is hidden once the duration has passed since the last show(), and a toast
\* that was dismissed, which has none, is not displayed before a new show()), and a
\* toast that is displayed eventually is not.
C21_ToastIsDismissed ==
    /\ [](displayed => (timeoutId # NULL /\ pending("autoHide") = 1))
    /\ (displayed ~> ~displayed)

\* C22 (as stated): the calls in flight carry pairwise distinct request ids; every
\* call in flight that was not cancelled is in the pending-request map under its
\* own id with its own controller; and until cancelAllRequests runs the map has
\* exactly one entry per call in flight.
C22_FreshRequestIds ==
    /\ \A c, d \in calls : c # d => c.rid # d.rid
    /\ \A c \in calls : ~c.aborted => registeredIn(abortControllers, c)
    /\ ~unloading => Cardinality(DOMAIN abortControllers) = Cardinality(calls)

\* the chat input and the send button are both enabled
submissionEnabled == ~chatInputDisabled /\ ~chatSendBtnDisabled

sessionEnded ==
    /\ currentChatSession = NULL
    /\ currentConversationHistory = <<>>
    /\ ~chatInterfaceShown

\* C24 (as stated): once the session has ended, only the success response of an
\* upload or of a recovery changes the stored session or history; the response of
\* a turn submitted before the end does not.
C24_EndedSessionStaysEnded ==
    [][(sessionEnded /\ store' # store)
          => (lastEvent'.op \in {"upload", "recover"} /\ lastEvent'.ev = "success")]_vars

\* C25 (as stated): the success response of an end or clear request clears only the
\* session that was stored when the request was issued: when another session is
\* stored at the time the response arrives, the response leaves the store alone.
C25_StaleEndClearsNothing ==
    [][\A c \in calls \ calls' :
          (/\ c.op \in {"end", "clear"}
           /\ lastEvent'.op = c.op /\ lastEvent'.ev = "success"
           /\ Truthy(currentChatSession) /\ currentChatSession # c.session)
             => UNCHANGED store]_vars

\* C26 (as stated): whenever no request is in flight, the chat interface is shown
\* exactly when a session is stored, whatever the server has answered.
C26_ChatShownIffSession ==
    calls = {} => (chatInterfaceShown <=> Truthy(currentChatSession))

====
